---- MODULE Spec2Model ----
(***************************************************************************)
(* Model of the rasterize-text crate: the rasterize pipeline (normalize,   *)
(* layout, extents, canvas allocation, per-sample compositing) and the     *)
(* Color text form (Display / FromStr).                                    *)
(***************************************************************************)
EXTENDS Integers, Sequences, FiniteSets, TLC

VARIABLES
    pc,            \* position inside rasterize: idle/start/layout/extents/draw/done/panic
    text,          \* the caller's text, a sequence of code points
    font,          \* the caller's Font: ascent and one glyph shape per code point
    color,         \* the caller's Color <<r, g, b, a>>
    normalized,    \* local `normalized`
    glyphs,        \* local `glyphs`, the positioned glyphs in layout order
    min_x, max_x, min_y, max_y,   \* the running extents
    gi,            \* index of the glyph the current loop is at (1-based)
    sk,            \* index of the next coverage sample of glyph gi (row-major, 0-based)
    width, height, \* dimensions of image_buffer
    image_buffer,  \* the canvas: [<<x, y>> -> pixel]
    accessed,      \* history: coordinates handed to get_pixel in this call
    hist,          \* history: per coordinate, the pixels computed for it, in order
    stores,        \* history: per coordinate, the pixels handed to put_pixel, in order
    drawn,         \* history: the coverage samples of this call, with where they went
    call,          \* which call of rasterize this is (1 or 2)
    first,         \* the canvas returned by the first call
    stage,         \* position of the Color text-form run: idle/color/text/parsed/shown
    origin,        \* whether the Color run started from a Color or from a string
    col,           \* the Color being formatted
    str,           \* the string handed to from_str
    result,        \* what from_str returned
    shown,         \* to_string of the parsed Color
    loader,        \* the font loader run: entry point, arguments, file system, result
    chan           \* the channel computation run: channel, coverage, result

rvars == <<pc, text, font, color, normalized, glyphs, min_x, max_x, min_y, max_y,
           gi, sk, width, height, image_buffer, accessed, hist, stores, drawn, call, first>>
cvars == <<stage, origin, col, str, result, shown>>
ovars == <<loader, chan>>
vars == <<rvars, cvars, ovars>>

----------------------------------------------------------------------------
(* Bounds of the model *)

MaxTextLen == 2      \* longest input text, in code points
CovDen == 2          \* coverage values are the fractions n / CovDen, n in 0..CovDen
MaxAscent == 1       \* the fonts have an ascent in 1..MaxAscent
MaxFields == 5       \* most space-delimited fields of a string handed to from_str
MaxDescent == 1      \* the fonts have a descent in -MaxDescent..0

----------------------------------------------------------------------------
(* Unicode normalization on a three-code-point alphabet:                   *)
(* "A" (U+0041), "ring" (U+030A combining ring above), "Aring" (U+00C5).   *)

CodePoints == {"A", "ring", "Aring"}

RECURSIVE Decompose(_)
Decompose(s) ==
    IF s = <<>> THEN <<>>
    ELSE IF Head(s) = "Aring" THEN <<"A", "ring">> \o Decompose(Tail(s))
    ELSE <<Head(s)>> \o Decompose(Tail(s))

RECURSIVE Compose(_)
Compose(s) ==
    IF Len(s) < 2 THEN s
    ELSE IF s[1] = "A" /\ s[2] = "ring" THEN <<"Aring">> \o Compose(SubSeq(s, 3, Len(s)))
    ELSE <<s[1]>> \o Compose(Tail(s))

nfc(s) == Compose(Decompose(s))

NormalizeRaw(t) == t
Normalize(t) == nfc(t)

RECURSIVE SeqsUpTo(_, _)
SeqsUpTo(S, n) ==
    IF n = 0 THEN {<<>>}
    ELSE LET shorter == SeqsUpTo(S, n - 1)
         IN shorter \cup {Append(s, c) : s \in {t \in shorter : Len(t) = n - 1}, c \in S}

Texts == SeqsUpTo(CodePoints, MaxTextLen)

----------------------------------------------------------------------------
(* The font engine: a Font gives every code point a glyph shape; layout    *)
(* walks the string with a pen and yields positioned glyphs.               *)

Full == CovDen
Part == 1

NoShape == [ink |-> FALSE, lsb |-> 0, top |-> 0, w |-> 0, h |-> 0, adv |-> 1, cov |-> <<>>]

ShapePool ==
    { NoShape,
      [ink |-> TRUE, lsb |-> 0,  top |-> -1, w |-> 1, h |-> 1, adv |-> 1, cov |-> <<Full>>],
      [ink |-> TRUE, lsb |-> -1, top |-> -2, w |-> 2, h |-> 2, adv |-> 1,
       cov |-> <<Part, Full, 0, Full>>],
      [ink |-> TRUE, lsb |-> 0,  top |-> -2, w |-> 1, h |-> 2, adv |-> 1, cov |-> <<Full, 0>>],
      [ink |-> TRUE, lsb |-> 0,  top |-> -1, w |-> 1, h |-> 1, adv |-> 0, cov |-> <<0>>],
      [ink |-> TRUE, lsb |-> 1,  top |-> 0,  w |-> 1, h |-> 1, adv |-> 2, cov |-> <<Part>>] }

FontPool == [ascent : 1 .. MaxAscent, shape : [CodePoints -> ShapePool]]

NoBox == [some |-> FALSE, min |-> [x |-> 0, y |-> 0], max |-> [x |-> 0, y |-> 0]]

\* glyph.pixel_bounding_box() of the glyph for code point c with the pen at penx
PixelBoundingBox(f, c, penx) ==
    LET s == f.shape[c] IN
    IF ~s.ink THEN NoBox
    ELSE [some |-> TRUE,
          min |-> [x |-> penx + s.lsb, y |-> f.ascent + s.top],
          max |-> [x |-> penx + s.lsb + s.w, y |-> f.ascent + s.top + s.h]]

RECURSIVE LayoutFrom(_, _, _)
LayoutFrom(f, s, penx) ==
    IF s = <<>> THEN <<>>
    ELSE <<[id |-> Head(s), bb |-> PixelBoundingBox(f, Head(s), penx),
            cov |-> f.shape[Head(s)].cov]>>
         \o LayoutFrom(f, Tail(s), penx + f.shape[Head(s)].adv)

\* font.layout(s, scale, point(0, ascent)).collect()
Layout(f, s) == LayoutFrom(f, s, 0)

----------------------------------------------------------------------------
(* rasterize *)

ColorPool == { <<255, 0, 0, 255>>, <<1, 0, 0, 1>> }

default_pixel == <<0, 0, 0, 0>>

\* the four `if` updates of the extents loop, for one glyph
ExtentsSlip(e, g) ==
    IF g.bb.some
    THEN [min_x |-> IF g.bb.min.x < e.min_x THEN g.bb.min.x ELSE e.min_x,
          max_x |-> IF g.bb.max.x > e.max_x THEN g.bb.max.x ELSE e.max_x,
          min_y |-> IF g.bb.min.y < e.min_y THEN g.bb.min.y ELSE e.min_y,
          max_y |-> IF g.bb.min.y > e.max_y THEN g.bb.min.y ELSE e.max_y]
    ELSE e
UpdateExtents(e, g) ==
    IF g.bb.some
    THEN [min_x |-> IF g.bb.min.x < e.min_x THEN g.bb.min.x ELSE e.min_x,
          max_x |-> IF g.bb.max.x > e.max_x THEN g.bb.max.x ELSE e.max_x,
          min_y |-> IF g.bb.min.y < e.min_y THEN g.bb.min.y ELSE e.min_y,
          max_y |-> IF g.bb.max.y > e.max_y THEN g.bb.max.y ELSE e.max_y]
    ELSE e

\* the conversion of a sample's relative position to a buffer position
AbsNoClamp(rel, bbmin) == rel + bbmin
AbsRelOnly(rel, bbmin) == rel
AbsPos(rel, bbmin) == IF bbmin >= 0 THEN rel + bbmin ELSE rel

\* (channel as f32 * v) as u8, for v = n / CovDen
Channel(ch, n) == (ch * n) \div CovDen

MakePixel(c, n) == <<Channel(c[1], n), Channel(c[2], n), Channel(c[3], n), Channel(c[4], n)>>

\* the guarded put_pixel
StoresAlways(current) == TRUE
StoresHere(current) == current = default_pixel

\* let width = max_x - min_x; let height = max_y - min_y;
CanvasSideInclusive(lo, hi) == hi - lo + 1
CanvasSide(lo, hi) == hi - lo

Coords(w, h) == (0 .. w - 1) \X (0 .. h - 1)

Extents == [min_x |-> min_x, max_x |-> max_x, min_y |-> min_y, max_y |-> max_y]

InitRaster ==
    /\ pc = "start"
    /\ text \in Texts
    /\ font \in FontPool
    /\ color \in ColorPool
    /\ normalized = <<>>
    /\ glyphs = <<>>
    /\ min_x = 0 /\ max_x = 0 /\ min_y = 0 /\ max_y = 0
    /\ gi = 1 /\ sk = 0
    /\ width = 0 /\ height = 0
    /\ image_buffer = <<>>
    /\ accessed = {}
    /\ hist = <<>>
    /\ stores = <<>>
    /\ drawn = {}
    /\ call = 1
    /\ first = [text |-> <<>>, width |-> 0, height |-> 0, pixels |-> <<>>]

\* the Color text form is not exercised while rasterize runs
IdleColor ==
    /\ stage = "idle" /\ origin = "none"
    /\ col = default_pixel /\ str = <<>>
    /\ result = [kind |-> "none", values |-> <<>>, cause |-> "none", original |-> <<>>,
                 field |-> <<>>, color |-> default_pixel]
    /\ shown = <<>>

\* no font is being loaded
NoLoader == [pc |-> "idle", entry |-> "none", path |-> "none", fs |-> <<>>,
             bytes |-> "none", parsed |-> 0,
             result |-> [kind |-> "none", cause |-> "none", path |-> "none"]]
IdleLoader == loader = NoLoader

\* no channel is being computed on its own
NoChannel == [pc |-> "idle", ch |-> 0, m |-> 0, e |-> 0, out |-> 0]
IdleChannel == chan = NoChannel

Init == InitRaster /\ IdleColor /\ IdleLoader /\ IdleChannel

\* let normalized = text.clone().nfc().collect::<String>();
NormalizeStep ==
    /\ pc = "start"
    /\ normalized' = Normalize(text)
    /\ pc' = "layout"
    /\ UNCHANGED <<text, font, color, glyphs, min_x, max_x, min_y, max_y, gi, sk, width,
                   height, image_buffer, accessed, hist, stores, drawn, call, first>>

\* let glyphs = font.layout(normalized, ...).collect(); let mut min_x = 0; ...
LayoutStep ==
    /\ pc = "layout"
    /\ glyphs' = Layout(font, normalized)
    /\ min_x' = 0 /\ max_x' = 0 /\ min_y' = 0 /\ max_y' = 0
    /\ gi' = 1
    /\ pc' = "extents"
    /\ UNCHANGED <<text, font, color, normalized, sk, width, height, image_buffer,
                   accessed, hist, stores, drawn, call, first>>

\* one iteration of glyphs.iter().for_each(...) updating the extents
ExtentsStep ==
    /\ pc = "extents"
    /\ gi <= Len(glyphs)
    /\ LET e == UpdateExtents(Extents, glyphs[gi]) IN
        /\ min_x' = e.min_x /\ max_x' = e.max_x
        /\ min_y' = e.min_y /\ max_y' = e.max_y
    /\ gi' = gi + 1
    /\ UNCHANGED <<pc, text, font, color, normalized, glyphs, sk, width, height,
                   image_buffer, accessed, hist, stores, drawn, call, first>>

\* width = max_x - min_x; height = max_y - min_y; ImageBuffer::new(width, height)
Allocate ==
    /\ pc = "extents"
    /\ gi > Len(glyphs)
    /\ width' = CanvasSide(min_x, max_x)
    /\ height' = CanvasSide(min_y, max_y)
    /\ image_buffer' = [p \in Coords(width', height') |-> default_pixel]
    /\ hist' = [p \in Coords(width', height') |-> <<>>]
    /\ stores' = [p \in Coords(width', height') |-> <<>>]
    /\ accessed' = {}
    /\ drawn' = {}
    /\ gi' = 1 /\ sk' = 0
    /\ pc' = "draw"
    /\ UNCHANGED <<text, font, color, normalized, glyphs, min_x, max_x, min_y, max_y,
                   call, first>>

BoxW(g) == g.bb.max.x - g.bb.min.x
BoxH(g) == g.bb.max.y - g.bb.min.y

\* position and pixel of sample k of glyph g
SampleX(g, k) == AbsPos(k % BoxW(g), g.bb.min.x)
SampleY(g, k) == AbsPos(k \div BoxW(g), g.bb.min.y)
SamplePixel(g, k) == MakePixel(color, g.cov[k + 1])

\* one call of the glyph.draw closure
DrawSample ==
    /\ pc = "draw"
    /\ gi <= Len(glyphs)
    /\ glyphs[gi].bb.some
    /\ LET g == glyphs[gi]
           p == <<SampleX(g, sk), SampleY(g, sk)>>
           pixel == SamplePixel(g, sk)
           last == sk + 1 >= BoxW(g) * BoxH(g)
       IN /\ accessed' = accessed \cup {p}
          /\ drawn' = drawn \cup {[g |-> gi, xr |-> sk % BoxW(g), yr |-> sk \div BoxW(g),
                                   cx |-> p[1], cy |-> p[2], v |-> g.cov[sk + 1],
                                   pixel |-> pixel]}
          /\ IF p \in Coords(width, height)
             THEN /\ hist' = [hist EXCEPT ![p] = Append(@, pixel)]
                  /\ IF StoresHere(image_buffer[p])
                     THEN /\ image_buffer' = [image_buffer EXCEPT ![p] = pixel]
                          /\ stores' = [stores EXCEPT ![p] = Append(@, pixel)]
                     ELSE UNCHANGED <<image_buffer, stores>>
                  /\ pc' = "draw"
                  /\ gi' = IF last THEN gi + 1 ELSE gi
                  /\ sk' = IF last THEN 0 ELSE sk + 1
             ELSE \* get_pixel panics on an out-of-bounds coordinate
                  /\ pc' = "panic"
                  /\ UNCHANGED <<hist, image_buffer, stores, gi, sk>>
    /\ UNCHANGED <<text, font, color, normalized, glyphs, min_x, max_x, min_y, max_y,
                   width, height, call, first>>

\* a glyph without a pixel bounding box is passed over by the draw loop
SkipGlyph ==
    /\ pc = "draw"
    /\ gi <= Len(glyphs)
    /\ ~glyphs[gi].bb.some
    /\ gi' = gi + 1
    /\ UNCHANGED <<pc, text, font, color, normalized, glyphs, min_x, max_x, min_y, max_y,
                   sk, width, height, image_buffer, accessed, hist, stores, drawn, call, first>>

\* image_buffer is returned
Return ==
    /\ pc = "draw"
    /\ gi > Len(glyphs)
    /\ pc' = "done"
    /\ UNCHANGED <<text, font, color, normalized, glyphs, min_x, max_x, min_y, max_y,
                   gi, sk, width, height, image_buffer, accessed, hist, stores, drawn, call, first>>

Rasterize == NormalizeStep \/ LayoutStep \/ ExtentsStep \/ Allocate \/ DrawSample
             \/ SkipGlyph \/ Return

Next == Rasterize /\ UNCHANGED <<cvars, ovars>>

Spec == Init /\ [][Next]_vars

\* the caller keeps the returned canvas and calls rasterize again, with the same
\* font, size and color and a text that has the same NFC form
SecondCall ==
    /\ pc = "done"
    /\ call = 1
    /\ first' = [text |-> text, width |-> width, height |-> height, pixels |-> image_buffer]
    /\ text' \in {t \in Texts : nfc(t) = nfc(text)}
    /\ call' = 2
    /\ pc' = "start"
    /\ normalized' = <<>> /\ glyphs' = <<>>
    /\ min_x' = 0 /\ max_x' = 0 /\ min_y' = 0 /\ max_y' = 0
    /\ gi' = 1 /\ sk' = 0 /\ width' = 0 /\ height' = 0
    /\ image_buffer' = <<>> /\ accessed' = {} /\ hist' = <<>> /\ stores' = <<>>
    /\ drawn' = {}
    /\ UNCHANGED <<font, color>>

NextTwoCalls == (Rasterize \/ SecondCall) /\ UNCHANGED <<cvars, ovars>>

SpecTwoCalls == Init /\ [][NextTwoCalls]_vars

----------------------------------------------------------------------------
(* Color: Display and FromStr.  A string is a sequence of one-character    *)
(* strings.                                                                *)

U8Max == 255

Digits == <<"0", "1", "2", "3", "4", "5", "6", "7", "8", "9">>
DigitChars == {Digits[i] : i \in 1 .. 10}
DigitVal(c) == (CHOOSE i \in 1 .. 10 : Digits[i] = c) - 1

FormatU8Padded(n) == <<Digits[(n \div 100) + 1], Digits[((n \div 10) % 10) + 1], Digits[(n % 10) + 1]>>
RECURSIVE FormatU8(_)
\* Display of a u8: its decimal digits, no sign, no leading zeros
FormatU8(n) ==
    IF n < 10 THEN <<Digits[n + 1]>>
    ELSE FormatU8(n \div 10) \o <<Digits[(n % 10) + 1]>>

DisplayPadded(c) ==
    FormatU8Padded(c[1]) \o <<" ">> \o FormatU8Padded(c[2]) \o <<" ">> \o FormatU8Padded(c[3])
    \o <<" ">> \o FormatU8Padded(c[4])
\* format!("{} {} {} {}", self.r, self.g, self.b, self.a)
Display(c) ==
    FormatU8(c[1]) \o <<" ">> \o FormatU8(c[2]) \o <<" ">> \o FormatU8(c[3])
    \o <<" ">> \o FormatU8(c[4])

RECURSIVE Split(_)
\* color.split(" ")
Split(s) ==
    IF \A i \in 1 .. Len(s) : s[i] # " " THEN <<s>>
    ELSE LET k == CHOOSE i \in 1 .. Len(s) : s[i] = " " /\ \A j \in 1 .. i - 1 : s[j] # " "
         IN <<SubSeq(s, 1, k - 1)>> \o Split(SubSeq(s, k + 1, Len(s)))

RECURSIVE ParseDigits(_, _)
\* the digit loop of u8::from_str: an invalid digit is reported before an overflow
ParseDigits(acc, ds) ==
    IF ds = <<>> THEN [ok |-> TRUE, val |-> acc, cause |-> "none"]
    ELSE IF Head(ds) \notin DigitChars THEN [ok |-> FALSE, val |-> 0, cause |-> "InvalidDigit"]
    ELSE IF acc * 10 + DigitVal(Head(ds)) > U8Max
         THEN [ok |-> FALSE, val |-> 0, cause |-> "PosOverflow"]
    ELSE ParseDigits(acc * 10 + DigitVal(Head(ds)), Tail(ds))

\* s.parse::<u8>(): an optional "+", then one or more digits, value at most 255
ParseU8(f) ==
    IF f = <<>> THEN [ok |-> FALSE, val |-> 0, cause |-> "Empty"]
    ELSE IF f = <<"+">> \/ f = <<"-">> THEN [ok |-> FALSE, val |-> 0, cause |-> "InvalidDigit"]
    ELSE IF Head(f) = "+" THEN ParseDigits(0, Tail(f))
    ELSE ParseDigits(0, f)

NoColor == <<0, 0, 0, 0>>

RECURSIVE CollectLast(_, _)
CollectLast(original, fields) ==
    IF fields = <<>>
    THEN [kind |-> "Values", values |-> <<>>, cause |-> "none", original |-> <<>>, field |-> <<>>]
    ELSE LET r == ParseU8(Head(fields))
             rest == CollectLast(original, Tail(fields))
         IN IF rest.kind # "Values" THEN rest
            ELSE IF ~r.ok
                 THEN [kind |-> "RgbaParseError", values |-> <<>>, cause |-> r.cause,
                       original |-> original, field |-> Head(fields)]
            ELSE [rest EXCEPT !.values = <<r.val>> \o @]
RECURSIVE Collect(_, _)
\* .map(|s| s.parse::<u8>().map_err(..)).collect::<Result<Vec<u8>, ColorError>>():
\* the fields are parsed from the left and the first failure ends the walk
Collect(original, fields) ==
    IF fields = <<>>
    THEN [kind |-> "Values", values |-> <<>>, cause |-> "none", original |-> <<>>, field |-> <<>>]
    ELSE LET r == ParseU8(Head(fields)) IN
         IF ~r.ok
         THEN [kind |-> "RgbaParseError", values |-> <<>>, cause |-> r.cause,
               original |-> original, field |-> Head(fields)]
         ELSE LET rest == Collect(original, Tail(fields)) IN
              IF rest.kind # "Values" THEN rest
              ELSE [rest EXCEPT !.values = <<r.val>> \o @]

\* rgba.clone().try_into() to [u8; 4]
FitsFirstFour(values) == Len(values) >= 4
FitsArray(values) == Len(values) = 4

MakeColorRepeated(rgba) == <<rgba[1], rgba[2], rgba[2], rgba[4]>>
\* Color { r: rgba[0], g: rgba[1], b: rgba[2], a: rgba[3] }
MakeColor(rgba) == <<rgba[1], rgba[2], rgba[3], rgba[4]>>

\* Color::from_str
from_str(s) ==
    LET c == Collect(s, Split(s)) IN
    IF c.kind = "RgbaParseError" THEN [c EXCEPT !.values = <<>>] @@ [color |-> NoColor]
    ELSE IF ~FitsArray(c.values)
         THEN [kind |-> "RgbaLengthError", values |-> c.values, cause |-> "none",
               original |-> <<>>, field |-> <<>>, color |-> NoColor]
    ELSE [kind |-> "Ok", values |-> <<>>, cause |-> "none", original |-> <<>>,
          field |-> <<>>, color |-> MakeColor(c.values)]

NoResult == [kind |-> "none", values |-> <<>>, cause |-> "none", original |-> <<>>,
             field |-> <<>>, color |-> NoColor]

\* Colors with one channel anywhere in 0..=255 and the others at an end of the range
Ends == {0, U8Max}
Colors ==
    {<<n, e[1], e[2], e[3]>> : n \in 0 .. U8Max, e \in Ends \X Ends \X Ends}
    \cup {<<e[1], n, e[2], e[3]>> : n \in 0 .. U8Max, e \in Ends \X Ends \X Ends}
    \cup {<<e[1], e[2], n, e[3]>> : n \in 0 .. U8Max, e \in Ends \X Ends \X Ends}
    \cup {<<e[1], e[2], e[3], n>> : n \in 0 .. U8Max, e \in Ends \X Ends \X Ends}

FieldPool ==
    { <<>>, <<"0">>, <<"0", "7">>, <<"+", "7">>, <<"2", "5", "5">>, <<"2", "5", "6">>, <<"x">> }

RECURSIVE Join(_)
Join(fs) == IF Len(fs) = 1 THEN fs[1] ELSE fs[1] \o <<" ">> \o Join(Tail(fs))

Inputs == {Join(fs) : fs \in SeqsUpTo(FieldPool, MaxFields) \ {<<>>}}

IdleRaster ==
    /\ pc = "idle"
    /\ text = <<>>
    /\ font = [ascent |-> 1, shape |-> [c \in CodePoints |-> NoShape]]
    /\ color = default_pixel
    /\ normalized = <<>> /\ glyphs = <<>>
    /\ min_x = 0 /\ max_x = 0 /\ min_y = 0 /\ max_y = 0
    /\ gi = 1 /\ sk = 0 /\ width = 0 /\ height = 0
    /\ image_buffer = <<>> /\ accessed = {} /\ hist = <<>> /\ stores = <<>>
    /\ drawn = {}
    /\ call = 1
    /\ first = [text |-> <<>>, width |-> 0, height |-> 0, pixels |-> <<>>]

InitColor ==
    /\ IdleRaster
    /\ IdleLoader /\ IdleChannel
    /\ result = NoResult
    /\ shown = <<>>
    /\ \/ /\ origin = "color" /\ stage = "color"
          /\ col \in Colors
          /\ str = <<>>
       \/ /\ origin = "text" /\ stage = "text"
          /\ col = NoColor
          /\ str \in Inputs

\* color.to_string() of the caller's Color
FormatColor ==
    /\ stage = "color"
    /\ str' = Display(col)
    /\ stage' = "text"
    /\ UNCHANGED <<origin, col, result, shown>>

\* Color::from_str(str)
FromStr ==
    /\ stage = "text"
    /\ result' = from_str(str)
    /\ stage' = "parsed"
    /\ UNCHANGED <<origin, col, str, shown>>

\* to_string() of the Color that from_str returned
ShowParsed ==
    /\ stage = "parsed"
    /\ result.kind = "Ok"
    /\ shown' = Display(result.color)
    /\ stage' = "shown"
    /\ UNCHANGED <<origin, col, str, result>>

NextColor == (FormatColor \/ FromStr \/ ShowParsed) /\ UNCHANGED <<rvars, ovars>>

SpecColor == InitColor /\ [][NextColor]_vars

----------------------------------------------------------------------------
(* Properties of rasterize *)

Drawing == pc \in {"draw", "done", "panic"}

Boxed == {i \in 1 .. Len(glyphs) : glyphs[i].bb.some}

\* C1: every coordinate handed to get_pixel/put_pixel lies inside the canvas,
\* 0 <= cx < W and 0 <= cy < H, so no access panics.
C1_NoOutOfBounds ==
    /\ pc # "panic"
    /\ \A p \in accessed : 0 <= p[1] /\ p[1] < width /\ 0 <= p[2] /\ p[2] < height

\* a finished call that drew a glyph with a negative origin and one with a positive origin
C1_Witness ==
    /\ pc = "done"
    /\ accessed # {}
    /\ \E i \in Boxed : glyphs[i].bb.min.x < 0
    /\ \E i \in Boxed : glyphs[i].bb.min.x > 0
    /\ \E i \in Boxed : glyphs[i].bb.min.y < 0

RECURSIVE FirstInk(_)
\* the first pixel of a sequence that is not the default pixel, the default if none
FirstInk(h) ==
    IF h = <<>> THEN default_pixel
    ELSE IF Head(h) # default_pixel THEN Head(h)
    ELSE FirstInk(Tail(h))

\* C2 as stated: the returned pixel equals the pixel of the earliest sample that
\* targeted its coordinate, whatever that sample computed.
C2_EarliestSampleWins ==
    pc = "done" =>
        \A p \in DOMAIN hist : hist[p] # <<>> => image_buffer[p] = hist[p][1]

\* C2 amended: the pixel equals the pixel of the earliest sample targeting its
\* coordinate that computed something other than (0, 0, 0, 0), and is (0, 0, 0, 0)
\* when no sample did.
C2_EarliestInkWins ==
    Drawing => \A p \in DOMAIN hist : image_buffer[p] = FirstInk(hist[p])

\* two samples with different ink met at one coordinate and the earlier one stayed
C2_Witness ==
    /\ pc = "done"
    /\ \E p \in DOMAIN hist :
          /\ Len(hist[p]) >= 2
          /\ hist[p][1] # default_pixel
          /\ hist[p][2] # default_pixel
          /\ hist[p][2] # hist[p][1]
          /\ image_buffer[p] = hist[p][1]

\* C3 as stated: a coordinate is stored to at most once in a call.
C3_StoredOnce ==
    Drawing => \A p \in DOMAIN stores : Len(stores[p]) <= 1

\* C3 amended: every pixel is the default or the one non-default pixel stored at
\* its coordinate; once a coordinate holds a non-default pixel nothing is stored
\* there again (stores of (0, 0, 0, 0) may precede it).
C3_OneInkStore ==
    Drawing =>
        \A p \in DOMAIN stores :
            LET st == stores[p]
                ink == {k \in 1 .. Len(st) : st[k] # default_pixel}
            IN /\ Cardinality(ink) <= 1
               /\ ink \subseteq {Len(st)}
               /\ image_buffer[p] = (IF ink = {} THEN default_pixel ELSE st[Len(st)])

\* a coordinate that took ink from one sample and was then targeted by another
C3_Witness ==
    /\ pc = "done"
    /\ \E p \in DOMAIN stores :
          /\ Len(hist[p]) >= 2
          /\ Len(stores[p]) = 1
          /\ stores[p][1] # default_pixel
          /\ hist[p][2] # default_pixel

SetMin(S) == CHOOSE m \in S : \A n \in S : m <= n
SetMax(S) == CHOOSE m \in S : \A n \in S : m >= n

BoxedUpTo(n) == {i \in 1 .. n : glyphs[i].bb.some}

RECURSIVE InkSamples(_)
\* the number of coverage samples of the glyphs 1..n
InkSamples(n) ==
    IF n = 0 THEN 0
    ELSE InkSamples(n - 1) + (IF glyphs[n].bb.some THEN BoxW(glyphs[n]) * BoxH(glyphs[n]) ELSE 0)

RECURSIVE SumLen(_, _)
SumLen(f, D) ==
    IF D = {} THEN 0
    ELSE LET p == CHOOSE q \in D : TRUE IN Len(f[p]) + SumLen(f, D \ {p})

\* C4: the extents are 0 joined with the min/max over the bounding boxes of the
\* glyphs that have one, W = max_x - min_x and H = max_y - min_y, and only the
\* glyphs that have a bounding box produce samples.
C4_Dimensions ==
    LET seen == IF pc = "extents" THEN BoxedUpTo(gi - 1) ELSE Boxed
    IN /\ (pc = "extents" \/ Drawing) =>
            /\ min_x = SetMin({0} \cup {glyphs[i].bb.min.x : i \in seen})
            /\ max_x = SetMax({0} \cup {glyphs[i].bb.max.x : i \in seen})
            /\ min_y = SetMin({0} \cup {glyphs[i].bb.min.y : i \in seen})
            /\ max_y = SetMax({0} \cup {glyphs[i].bb.max.y : i \in seen})
       /\ Drawing => width = max_x - min_x /\ height = max_y - min_y
       /\ pc = "done" => SumLen(hist, DOMAIN hist) = InkSamples(Len(glyphs))

\* a finished call over a glyph without a box and glyphs that moved all four extents
C4_Witness ==
    /\ pc = "done"
    /\ Boxed # {} /\ Boxed # 1 .. Len(glyphs)
    /\ min_x < 0 /\ min_y < 0 /\ max_x > 0 /\ max_y > 0

\* C9: with no glyph that has a bounding box (empty or all-whitespace text) the
\* canvas is 0 x 0, no pixel is accessed and the call does not panic.
C9_EmptyCanvas ==
    (Drawing /\ Boxed = {}) =>
        /\ width = 0 /\ height = 0
        /\ accessed = {}
        /\ image_buffer = <<>>
        /\ pc # "panic"

\* a finished call over a non-empty text whose glyphs all lack a bounding box
C9_Witness == pc = "done" /\ Boxed = {} /\ Len(glyphs) = MaxTextLen

\* C10: a second call with a text of the same NFC form, and the same font and
\* color, returns a canvas with the dimensions and pixels of the first.
C10_NormalizationInvariance ==
    (call = 2 /\ pc = "done") =>
        /\ width = first.width
        /\ height = first.height
        /\ image_buffer = first.pixels

\* the second call was given a different string and drew ink
C10_Witness ==
    /\ call = 2 /\ pc = "done"
    /\ text # first.text
    /\ \E p \in DOMAIN image_buffer : image_buffer[p] # default_pixel

----------------------------------------------------------------------------
(* Properties of the Color text form *)

Parsed == stage \in {"parsed", "shown"}

NumFields(s) == 1 + Cardinality({i \in 1 .. Len(s) : s[i] = " "})

Unsigned(f) == IF f # <<>> /\ f[1] = "+" THEN Tail(f) ELSE f

RECURSIVE Pow10(_)
Pow10(n) == IF n = 0 THEN 1 ELSE 10 * Pow10(n - 1)

RECURSIVE PlaceSum(_, _)
PlaceSum(ds, i) ==
    IF i > Len(ds) THEN 0
    ELSE DigitVal(ds[i]) * Pow10(Len(ds) - i) + PlaceSum(ds, i + 1)

AllDigits(f) == f # <<>> /\ \A i \in 1 .. Len(f) : f[i] \in DigitChars

\* f is a decimal integer in 0..=255 (an optional "+", then digits)
IsU8Text(f) == AllDigits(Unsigned(f)) /\ PlaceSum(Unsigned(f), 1) <= U8Max

NoLeadingZeros(f) == ~(Len(f) > 1 /\ f[1] = "0")

\* no field has leading zeros and exactly one space separates the fields
Canonical(s) ==
    \A i \in 1 .. Len(Split(s)) : Split(s)[i] # <<>> /\ NoLeadingZeros(Split(s)[i])

\* C5: parsing the Display form of a Color succeeds and gives back its channels.
C5_ColorRoundTrip ==
    (origin = "color" /\ Parsed) => result.kind = "Ok" /\ result.color = col

\* a Color with four different channel lengths went through Display and from_str
C5_Witness ==
    /\ origin = "color" /\ stage = "parsed"
    /\ col[1] = 0 /\ col[2] = 128 /\ col[3] = U8Max /\ col[4] = 0
    /\ str = <<"0", " ", "1", "2", "8", " ", "2", "5", "5", " ", "0">>

\* C6 as stated: an accepted string whose fields have no leading zeros and are
\* separated by single spaces is reproduced by formatting its parsed Color.
C6_CanonicalRoundTrip ==
    (origin = "text" /\ stage = "shown" /\ Canonical(str)) => shown = str

\* C6 amended: an accepted string whose fields are digits only (no "+" sign), have
\* no leading zeros and are separated by single spaces is reproduced.
C6_DigitsOnlyRoundTrip ==
    (origin = "text" /\ stage = "shown" /\ Canonical(str)
        /\ \A i \in 1 .. Len(Split(str)) : AllDigits(Split(str)[i]))
    => shown = str

\* an accepted digits-only string was parsed and formatted again
C6_Witness ==
    /\ origin = "text" /\ stage = "shown"
    /\ str = <<"0", " ", "2", "5", "5", " ", "2", "5", "5", " ", "0">>
    /\ shown = str

\* C7 as stated: any string that does not split into exactly four fields fails
\* with RgbaLengthError, and Ok needs exactly four fields.
C7_FieldCountError ==
    (origin = "text" /\ Parsed) =>
        /\ NumFields(str) # 4 => result.kind = "RgbaLengthError"
        /\ result.kind = "Ok" => NumFields(str) = 4

\* C7 amended: a string whose fields all parse as u8 and that does not split into
\* exactly four fields fails with RgbaLengthError, and Ok needs exactly four fields.
C7_FieldCountErrorWhenAllParse ==
    (origin = "text" /\ Parsed) =>
        /\ (NumFields(str) # 4 /\ \A i \in 1 .. Len(Split(str)) : IsU8Text(Split(str)[i]))
              => result.kind = "RgbaLengthError"
        /\ result.kind = "Ok" => NumFields(str) = 4

\* five well-formed fields were rejected for their number
C7_Witness ==
    /\ origin = "text" /\ stage = "parsed"
    /\ NumFields(str) = 5
    /\ result.kind = "RgbaLengthError"
    /\ Len(result.values) = 5

FirstBad(fs) == CHOOSE i \in 1 .. Len(fs) :
                    ~IsU8Text(fs[i]) /\ \A j \in 1 .. i - 1 : IsU8Text(fs[j])

\* C8: a string with a field that is not a decimal integer in 0..=255 fails with
\* RgbaParseError carrying the whole string and the leftmost such field.
C8_ChannelParseError ==
    (origin = "text" /\ Parsed /\ \E i \in 1 .. Len(Split(str)) : ~IsU8Text(Split(str)[i]))
    => /\ result.kind = "RgbaParseError"
       /\ result.original = str
       /\ result.field = Split(str)[FirstBad(Split(str))]

\* a string with two different bad fields, and not four fields, was parsed
C8_Witness ==
    /\ origin = "text" /\ stage = "parsed"
    /\ NumFields(str) # 4
    /\ \E i, j \in 1 .. Len(Split(str)) :
          /\ i < j
          /\ ~IsU8Text(Split(str)[i]) /\ ~IsU8Text(Split(str)[j])
          /\ Split(str)[i] # Split(str)[j]
          /\ i > 1
    /\ result.kind = "RgbaParseError"

----------------------------------------------------------------------------
(* The font loader: read_font_file and read_font_bytes *)

Paths == {"DejaVuSans.ttf", "notes.txt", "fonts"}

FontBytes == {"ttf_regular", "ttf_bold"}
BytesPool == FontBytes \cup {"text", "empty"}

\* Font::try_from_vec(bytes).is_some()
EngineAccepts(b) == b \in FontBytes

\* what std::fs::read finds at a path
FileStates ==
    {[ok |-> FALSE, err |-> e, bytes |-> "none"] : e \in {"NotFound", "PermissionDenied"}}
    \cup {[ok |-> TRUE, err |-> "none", bytes |-> b] : b \in BytesPool}

\* .map_err(|e| FontError::FileReadError(e, path.as_ref().to_path_buf()))
ReadFailureAsBytes(e, path) == [kind |-> "BytesReadError", cause |-> "none", path |-> "none"]
ReadFailure(e, path) == [kind |-> "FileReadError", cause |-> e, path |-> path]

\* Font::try_from_vec(bytes).ok_or(FontError::BytesReadError)
TryFromVec(b) ==
    IF EngineAccepts(b) THEN [kind |-> "Font", cause |-> "none", path |-> "none"]
    ELSE [kind |-> "BytesReadError", cause |-> "none", path |-> "none"]

InitLoader ==
    /\ IdleRaster /\ IdleColor /\ IdleChannel
    /\ \E fs \in [Paths -> FileStates] :
          \/ \E p \in Paths :
                loader = [NoLoader EXCEPT !.pc = "read", !.entry = "read_font_file",
                                          !.path = p, !.fs = fs]
          \/ \E b \in BytesPool :
                loader = [NoLoader EXCEPT !.pc = "parse", !.entry = "read_font_bytes",
                                          !.bytes = b, !.fs = fs]

\* let font_bytes = std::fs::read(path).map_err(..)?;
ReadFile ==
    /\ loader.pc = "read"
    /\ LET f == loader.fs[loader.path] IN
       IF f.ok
       THEN loader' = [loader EXCEPT !.pc = "parse", !.bytes = f.bytes]
       ELSE loader' = [loader EXCEPT !.pc = "done", !.result = ReadFailure(f.err, loader.path)]
    /\ UNCHANGED <<rvars, cvars, chan>>

\* Font::try_from_vec(..).ok_or(FontError::BytesReadError)
ParseBytes ==
    /\ loader.pc = "parse"
    /\ loader' = [loader EXCEPT !.pc = "done", !.parsed = @ + 1,
                                !.result = TryFromVec(loader.bytes)]
    /\ UNCHANGED <<rvars, cvars, chan>>

NextLoader == ReadFile \/ ParseBytes

SpecLoader == InitLoader /\ [][NextLoader]_vars

\* C11: read_font_file returns FileReadError, with the path and the I/O cause, exactly
\* when the read fails, and then the engine is not asked to parse; it returns
\* BytesReadError exactly when the file was read and the engine rejects the bytes;
\* read_font_bytes fails only with BytesReadError, exactly when the engine rejects.
C11_LoaderErrors ==
    loader.pc = "done" =>
        LET r == loader.result IN
        /\ loader.entry = "read_font_file" =>
              LET f == loader.fs[loader.path] IN
              /\ r.kind = "FileReadError" <=> ~f.ok
              /\ r.kind = "FileReadError" =>
                    r.path = loader.path /\ r.cause = f.err /\ loader.parsed = 0
              /\ r.kind = "BytesReadError" <=> (f.ok /\ f.bytes \notin FontBytes)
              /\ r.kind = "Font" <=> (f.ok /\ f.bytes \in FontBytes)
        /\ loader.entry = "read_font_bytes" =>
              /\ r.kind # "FileReadError"
              /\ r.kind = "BytesReadError" <=> loader.bytes \notin FontBytes
              /\ r.kind = "Font" <=> loader.bytes \in FontBytes

\* a file that could not be read, next to one that holds no font
C11_Witness ==
    /\ loader.pc = "done"
    /\ loader.entry = "read_font_file"
    /\ loader.result.kind = "FileReadError"
    /\ loader.result.cause = "PermissionDenied"
    /\ \E q \in Paths : loader.fs[q].ok /\ loader.fs[q].bytes = "text"

----------------------------------------------------------------------------
(* Properties of the sample conversion *)

\* C12: a sample (xr, yr) of a glyph with box b goes to cx = xr + b.min.x when
\* b.min.x >= 0 and to cx = xr otherwise, and likewise and independently for cy;
\* a single glyph with b.min.x < 0 has its leftmost column written at cx = 0.
C12_Clamping ==
    /\ \A s \in drawn :
          LET b == glyphs[s.g].bb IN
          /\ b.min.x >= 0 => s.cx = s.xr + b.min.x
          /\ b.min.x < 0 => s.cx = s.xr
          /\ b.min.y >= 0 => s.cy = s.yr + b.min.y
          /\ b.min.y < 0 => s.cy = s.yr
    /\ (pc = "done" /\ Len(glyphs) = 1 /\ Boxed = {1} /\ glyphs[1].bb.min.x < 0) =>
          /\ \E s \in drawn : s.xr = 0
          /\ \A s \in drawn : s.xr = 0 => s.cx = 0 /\ stores[<<0, s.cy>>] = <<s.pixel>>

\* a clamped glyph and, after it, a glyph shifted by a positive origin, both drawn
C12_Witness ==
    /\ pc = "done"
    /\ \E s, t \in drawn :
          /\ s.g < t.g
          /\ glyphs[s.g].bb.min.x < 0 /\ s.cx = 0 /\ s.xr = 0
          /\ glyphs[t.g].bb.min.x > 0 /\ t.cx = t.xr + glyphs[t.g].bb.min.x
          /\ glyphs[t.g].bb.min.y < 0 /\ t.cy = t.yr

\* the half-open boxes a and b share no pixel
DisjointBoxes(a, b) ==
    \/ a.max.x <= b.min.x \/ b.max.x <= a.min.x
    \/ a.max.y <= b.min.y \/ b.max.y <= a.min.y

NonNegativeOrigin(b) == b.min.x >= 0 /\ b.min.y >= 0

\* C14 as stated: samples of two glyphs whose pixel bounding boxes are disjoint
\* never go to the same canvas coordinate.
C14_DisjointNeverCollide ==
    \A s, t \in drawn :
        (s.g # t.g /\ DisjointBoxes(glyphs[s.g].bb, glyphs[t.g].bb))
        => <<s.cx, s.cy>> # <<t.cx, t.cy>>

\* C14 amended: samples of two glyphs whose pixel bounding boxes are disjoint and
\* have no negative origin coordinate never go to the same canvas coordinate; two
\* samples that meet come from boxes that overlap or from a box with a negative
\* origin coordinate.
C14_DisjointUnclampedNeverCollide ==
    \A s, t \in drawn :
        (/\ s.g # t.g
         /\ DisjointBoxes(glyphs[s.g].bb, glyphs[t.g].bb)
         /\ NonNegativeOrigin(glyphs[s.g].bb) /\ NonNegativeOrigin(glyphs[t.g].bb))
        => <<s.cx, s.cy>> # <<t.cx, t.cy>>

\* two inked glyphs with disjoint boxes and non-negative origins were both drawn
C14_Witness ==
    /\ pc = "done"
    /\ \E s, t \in drawn :
          /\ s.g < t.g
          /\ DisjointBoxes(glyphs[s.g].bb, glyphs[t.g].bb)
          /\ NonNegativeOrigin(glyphs[s.g].bb) /\ NonNegativeOrigin(glyphs[t.g].bb)
          /\ s.pixel # default_pixel /\ t.pixel # default_pixel
          /\ image_buffer[<<s.cx, s.cy>>] = s.pixel
          /\ image_buffer[<<t.cx, t.cy>>] = t.pixel

----------------------------------------------------------------------------
(* The channel computation (color.r as f32 * v) as u8 in f32 arithmetic.   *)
(* A coverage v is the f32 value m * 2^-e with m < 2^24.  The product      *)
(* ch * m needs up to 32 bits, so it is kept as hi * 4096 + lo.            *)

RECURSIVE Pow2(_)
Pow2(n) == IF n = 0 THEN 1 ELSE 2 * Pow2(n - 1)

RECURSIVE BitLen(_)
BitLen(n) == IF n = 0 THEN 0 ELSE 1 + BitLen(n \div 2)

\* f32 values in [0, 1], as <<m, e>>: 0, 1, 1/2, 3/4, the f32 next below 1, the
\* f32 next to 1/3, and the f32 next below 5/6, 7/10 and 3/25
CoveragePool ==
    { <<0, 23>>, <<8388608, 23>>, <<8388608, 24>>, <<12582912, 24>>, <<16777215, 24>>,
      <<11184811, 25>>, <<13981013, 24>>, <<11744051, 24>>, <<16106127, 27>> }

\* the exact product ch * m, as <<hi, lo>> with value hi * 4096 + lo
Product(ch, m) ==
    LET t == ch * (m % 4096)
    IN <<ch * (m \div 4096) + t \div 4096, t % 4096>>

\* the f32 multiplication: the exact product rounded to 24 significant bits,
\* ties to even
RoundF32(p) ==
    LET s == IF BitLen(p[1]) > 12 THEN BitLen(p[1]) - 12 ELSE 0
        step == Pow2(s)
        r == p[2] % step
        up == 2 * r > step \/ (2 * r = step /\ (p[2] \div step) % 2 = 1)
        lo == p[2] - r + (IF up THEN step ELSE 0)
    IN IF lo = 4096 THEN <<p[1] + 1, 0>> ELSE <<p[1], lo>>

\* `as u8` of a non-negative f32 m' * 2^-e: the integer part, saturating at 255
AsU8(p, e) ==
    LET n == p[1] \div Pow2(e - 12) IN IF n > U8Max THEN U8Max ELSE n

ChannelNearest(ch, m, e) ==
    LET p == Product(ch, m)
        n == p[1] \div Pow2(e - 12)
        rest == <<p[1] % Pow2(e - 12), p[2]>>
    IN IF rest[1] >= Pow2(e - 13) THEN n + 1 ELSE n
\* (color.r as f32 * v) as u8
ChannelF32(ch, m, e) == AsU8(RoundF32(Product(ch, m)), e)

InitChannel ==
    /\ IdleRaster /\ IdleColor /\ IdleLoader
    /\ \E c \in 0 .. U8Max, v \in CoveragePool :
          chan = [pc |-> "start", ch |-> c, m |-> v[1], e |-> v[2], out |-> 0]

\* one channel of the pixel is computed
ComputeChannel ==
    /\ chan.pc = "start"
    /\ chan' = [chan EXCEPT !.pc = "done", !.out = ChannelF32(chan.ch, chan.m, chan.e)]
    /\ UNCHANGED <<rvars, cvars, loader>>

NextChannel == ComputeChannel

SpecChannel == InitChannel /\ [][NextChannel]_vars

\* floor(ch * v) in exact arithmetic
ExactFloor(ch, m, e) == Product(ch, m)[1] \div Pow2(e - 12)

\* the exact product fits the 24 significant bits of an f32
Representable(ch, m) ==
    LET p == Product(ch, m)
    IN BitLen(p[1]) <= 12 \/ p[2] % Pow2(BitLen(p[1]) - 12) = 0

IsOne(m, e) == m = Pow2(e)

\* C13 as stated: the written channel is ch * v truncated toward zero; it lies in
\* 0..=ch; v = 1 gives ch and v = 0 gives 0.
C13_ExactTruncation ==
    chan.pc = "done" =>
        /\ chan.out = ExactFloor(chan.ch, chan.m, chan.e)
        /\ 0 <= chan.out /\ chan.out <= chan.ch
        /\ IsOne(chan.m, chan.e) => chan.out = chan.ch
        /\ chan.m = 0 => chan.out = 0

\* C13 amended: the written channel is the f32 product ch * v truncated toward
\* zero: floor(ch * v), or floor(ch * v) + 1 when the product is not an f32 and
\* rounds up to an integer; it lies in 0..=ch; v = 1 gives ch and v = 0 gives 0.
C13_TruncatedF32Product ==
    chan.pc = "done" =>
        LET exact == ExactFloor(chan.ch, chan.m, chan.e) IN
        /\ exact <= chan.out /\ chan.out <= exact + 1
        /\ Representable(chan.ch, chan.m) => chan.out = exact
        /\ 0 <= chan.out /\ chan.out <= chan.ch
        /\ IsOne(chan.m, chan.e) => chan.out = chan.ch
        /\ chan.m = 0 => chan.out = 0

\* a product with a fraction of one half or more was cut down, not rounded up
C13_Witness ==
    /\ chan.pc = "done"
    /\ chan.ch = 3 /\ chan.m = 12582912 /\ chan.e = 24
    /\ chan.out = 2

----------------------------------------------------------------------------
(* The older entry point text_to_image_buffer of the rasterize-string      *)
(* crate: no normalization, height from the font metrics, x clamped and y  *)
(* not clamped.                                                            *)

MetricFontPool ==
    [ascent : 1 .. MaxAscent, descent : -MaxDescent .. 0, shape : [CodePoints -> ShapePool]]

InitOld ==
    /\ IdleColor /\ IdleLoader /\ IdleChannel
    /\ pc = "start"
    /\ text \in Texts
    /\ font \in MetricFontPool
    /\ color \in ColorPool
    /\ normalized = <<>> /\ glyphs = <<>>
    /\ min_x = 0 /\ max_x = 0 /\ min_y = 0 /\ max_y = 0
    /\ gi = 1 /\ sk = 0 /\ width = 0 /\ height = 0
    /\ image_buffer = <<>> /\ accessed = {} /\ hist = <<>> /\ stores = <<>>
    /\ drawn = {}
    /\ call = 1
    /\ first = [text |-> <<>>, width |-> 0, height |-> 0, pixels |-> <<>>]

\* let height = (metrics.ascent - metrics.descent).ceil() as u32;
MetricsHeight(f) == f.ascent - f.descent

\* let width = if min_x >= 0 { max_x } else { max_x - min_x };
OldWidth(lo, hi) == IF lo >= 0 THEN hi ELSE hi - lo

\* let y = y as i32 + bounding_box.min.y;
OldAbsY(rel, bbmin) == rel + bbmin

\* font.layout(text, ..).collect(); height from the metrics; min_x = 0; max_x = 0
OldLayoutStep ==
    /\ pc = "start"
    /\ glyphs' = Layout(font, text)
    /\ height' = MetricsHeight(font)
    /\ min_x' = 0 /\ max_x' = 0
    /\ gi' = 1
    /\ pc' = "extents"
    /\ UNCHANGED <<text, font, color, normalized, min_y, max_y, sk, width, image_buffer,
                   accessed, hist, stores, drawn, call, first>>

\* one iteration of the loop over the glyphs that updates min_x and max_x
OldExtentsStep ==
    /\ pc = "extents"
    /\ gi <= Len(glyphs)
    /\ LET b == glyphs[gi].bb IN
       IF b.some
       THEN /\ min_x' = (IF b.min.x < min_x THEN b.min.x ELSE min_x)
            /\ max_x' = (IF b.max.x > max_x THEN b.max.x ELSE max_x)
       ELSE UNCHANGED <<min_x, max_x>>
    /\ gi' = gi + 1
    /\ UNCHANGED <<pc, text, font, color, normalized, glyphs, min_y, max_y, sk, width,
                   height, image_buffer, accessed, hist, stores, drawn, call, first>>

\* width; ImageBuffer::new(width as u32, height as u32)
OldAllocate ==
    /\ pc = "extents"
    /\ gi > Len(glyphs)
    /\ width' = OldWidth(min_x, max_x)
    /\ image_buffer' = [p \in Coords(width', height) |-> default_pixel]
    /\ hist' = [p \in Coords(width', height) |-> <<>>]
    /\ stores' = [p \in Coords(width', height) |-> <<>>]
    /\ accessed' = {}
    /\ drawn' = {}
    /\ gi' = 1 /\ sk' = 0
    /\ pc' = "draw"
    /\ UNCHANGED <<text, font, color, normalized, glyphs, min_x, max_x, min_y, max_y,
                   height, call, first>>

\* one call of the glyph.draw closure.  A negative i32 cast to u32 is at least
\* 2^31, beyond every width and height, so it is out of bounds like any
\* coordinate outside Coords.
OldDrawSample ==
    /\ pc = "draw"
    /\ gi <= Len(glyphs)
    /\ glyphs[gi].bb.some
    /\ LET g == glyphs[gi]
           xr == sk % BoxW(g)
           yr == sk \div BoxW(g)
           p == <<AbsPos(xr, g.bb.min.x), OldAbsY(yr, g.bb.min.y)>>
           pixel == SamplePixel(g, sk)
           last == sk + 1 >= BoxW(g) * BoxH(g)
       IN /\ accessed' = accessed \cup {p}
          /\ drawn' = drawn \cup {[g |-> gi, xr |-> xr, yr |-> yr, cx |-> p[1], cy |-> p[2],
                                   v |-> g.cov[sk + 1], pixel |-> pixel]}
          /\ IF p \in Coords(width, height)
             THEN /\ hist' = [hist EXCEPT ![p] = Append(@, pixel)]
                  /\ IF StoresHere(image_buffer[p])
                     THEN /\ image_buffer' = [image_buffer EXCEPT ![p] = pixel]
                          /\ stores' = [stores EXCEPT ![p] = Append(@, pixel)]
                     ELSE UNCHANGED <<image_buffer, stores>>
                  /\ pc' = "draw"
                  /\ gi' = IF last THEN gi + 1 ELSE gi
                  /\ sk' = IF last THEN 0 ELSE sk + 1
             ELSE \* get_pixel panics
                  /\ pc' = "panic"
                  /\ UNCHANGED <<hist, image_buffer, stores, gi, sk>>
    /\ UNCHANGED <<text, font, color, normalized, glyphs, min_x, max_x, min_y, max_y,
                   width, height, call, first>>

\* Ok(image_buffer)
OldReturn ==
    /\ pc = "draw"
    /\ gi > Len(glyphs)
    /\ pc' = "done"
    /\ UNCHANGED <<text, font, color, normalized, glyphs, min_x, max_x, min_y, max_y,
                   gi, sk, width, height, image_buffer, accessed, hist, stores, drawn,
                   call, first>>

text_to_image_buffer == OldLayoutStep \/ OldExtentsStep \/ OldAllocate \/ OldDrawSample
                        \/ SkipGlyph \/ OldReturn

NextOld == text_to_image_buffer /\ UNCHANGED <<cvars, ovars>>

SpecOld == InitOld /\ [][NextOld]_vars

\* C15: in text_to_image_buffer every coordinate handed to get_pixel/put_pixel
\* satisfies 0 <= x < width and 0 <= y < height, so the call never panics.
C15_OldEntryInBounds ==
    /\ pc # "panic"
    /\ \A p \in accessed : 0 <= p[1] /\ p[1] < width /\ 0 <= p[2] /\ p[2] < height

====
